---- MODULE Spec2Model ----
(***************************************************************************)
(* State-machine model of the SimpleQA benchmark orchestrator:            *)
(* run_evaluation / evaluate_provider / process_example                   *)
(* (src/run_evaluation.py) and the record log and summary helpers         *)
(* (src/utils/utils.py), with the provider handlers' search/post_process  *)
(* contract (src/handlers) and the extractor (src/utils/post_processor.py)*)
(*                                                                         *)
(* One asyncio event loop runs everything: a task runs atomically from    *)
(* one suspension point (an awaited network call) to the next, so each    *)
(* action below is one such atomic segment.                                *)
(***************************************************************************)
EXTENDS Integers, Sequences, FiniteSets, TLC

(* ---- bounds of the model ---- *)
MaxRows == 2     \* rows of the dataset file
MaxRuns == 2     \* invocations of run_evaluation on one output directory
MaxTasks == 2    \* example tasks started over all modelled runs
MaxDocs == 2     \* documents of one search response

(* ---- values ---- *)
NoFile == [exists |-> FALSE, cells |-> <<>>]   \* a path for which os.path.exists is False
File(cells) == [exists |-> TRUE, cells |-> cells]
None == "None"                     \* Python None inside a search result
HDR == [part |-> "header"]         \* the header line of a record log
ERROR == "ERROR"
SENTINEL == "Sorry, I couldn't process the answer properly."
ANS == "extracted answer"

Min(a, b) == IF a < b THEN a ELSE b
Max(a, b) == IF a > b THEN a ELSE b

RECURSIVE SeqSum(_)
SeqSum(s) == IF s = <<>> THEN 0 ELSE Head(s) + SeqSum(Tail(s))

(* ---- dataset rows: the 'problem' and 'answer' columns of row i ---- *)
Problem(i) == <<"problem", i>>
Answer(i) == <<"answer", i>>

(* ---- provider configurations: the JSON mapping, in key order ---- *)
Entry(n, ia) == [name |-> n, include_answer |-> ia]
Configs ==
  { <<Entry("Exa", FALSE)>>,
    <<Entry("tavily", FALSE)>>,
    <<Entry("Exa", FALSE), Entry("perplexity", FALSE)>>,
    <<Entry("serper", FALSE), Entry("Exa", FALSE)>> }

\* str.lower() on the provider names that occur in Configs
Lower(n) == IF n = "Exa" THEN "exa" ELSE n

VARIABLES
  total_rows,        \* len(df) of the dataset file
  config,            \* search_provider_params, in key order
  logs,              \* {output_dir}/{provider}_results.csv, per provider name
  summary,           \* {output_dir}/summary.csv
  runs,              \* run_evaluation invocations that reached scheduling
  tasksUsed,         \* example tasks started so far
  rs,                \* run_evaluation: "idle", "running", "done", "failed", "aborted"
  args,              \* rerun / parallel / random_sample of the current run
  df,                \* indices of the rows load_csv_data returned
  examples,          \* prepare_examples' result, per provider name
  ps,                \* evaluate_provider per zipped pair: "waiting", "running", "returned"
  pc,                \* process_example per pair and example
  search_result,     \* process_example local, while the task is in flight
  search_ans,        \* process_example local: the extractor's input, and how
                     \* often post_process was called for it
  answer,            \* process_example local, while the task is in flight
  results,           \* evaluate_provider's results list, per pair
  correct_count,     \* evaluate_provider's correct_count, per pair
  provider_results,  \* run_evaluation's provider_results, in insertion order
  logs0,             \* history: the record logs when the current run started
  summary0,          \* history: the summary file when the current run started
  repeat,            \* history: the current run has the frame and sample size of
                     \* the previous run, in which no example ended in error
  fn_call,           \* a call of a pure function: its name and arguments
  fn_ret             \* the value that call returned

vars == <<total_rows, config, logs, summary, runs, tasksUsed, rs, args, df,
          examples, ps, pc, search_result, search_ans, answer, results, correct_count,
          provider_results, logs0, summary0, repeat, fn_call, fn_ret>>

(***************************************************************************)
(* Pure functions of the program                                           *)
(***************************************************************************)

(* get_search_handlers: one handler per recognized name, in key order;     *)
(* an unrecognized name adds nothing to the list.                          *)
RECURSIVE get_search_handlers(_)
get_search_handlers(params) ==
  IF params = <<>> THEN <<>>
  ELSE LET e == Head(params)
           n == Lower(e.name)
           rest == get_search_handlers(Tail(params))
       IN IF n = "tavily"
            THEN <<[kind |-> "tavily", is_llm_response |-> e.include_answer]>> \o rest
          ELSE IF n = "exa"
            THEN <<[kind |-> "exa", is_llm_response |-> FALSE]>> \o rest
          ELSE IF n = "gptr"
            THEN <<[kind |-> "gptr", is_llm_response |-> TRUE]>> \o rest
          ELSE IF n = "perplexity"
            THEN <<[kind |-> "perplexity", is_llm_response |-> TRUE]>> \o rest
          ELSE rest

provider_names(params) == [i \in 1..Len(params) |-> params[i].name]
NameSet(params) == {params[i].name : i \in 1..Len(params)}

(* zip(search_handlers, provider_names): pair i is the i-th handler with   *)
(* the i-th name, up to the shorter list.                                  *)
Pairs(params) == 1..Min(Len(get_search_handlers(params)), Len(params))
PairName(params, i) == params[i].name
PairHandler(params, i) == get_search_handlers(params)[i]

(* the value of the 'index' column of the row at position pos of the     *)
(* file, which is row k (from 0) of the returned frame, had the column    *)
(* been added after slicing                                                *)
RowIndexAfterSlice(pos, k) == k

(* line 86, df['index'] = range(len(df)), runs before slicing and         *)
(* sampling: the value is the row's position in the file                   *)
RowIndex(pos, k) == pos

(* the sequences of n distinct positions out of S: df.sample(n) *)
RECURSIVE Samples(_, _)
Samples(S, n) ==
  IF n = 0 THEN {<<>>}
  ELSE UNION {{<<x>> \o t : t \in Samples(S \ {x}, n - 1)} : x \in S}

(* load_csv_data, row by row: the 'index' values of the rows of the       *)
(* frames it can return, in frame order.  iloc[start:end] stops at the    *)
(* end of the frame.                                                       *)
load_csv_rows(total, start_index, end_index, random_sample) ==
  IF random_sample > 0
    THEN LET sample_size == Min(random_sample, total)
         IN {[k \in 1..sample_size |-> RowIndex(t[k], k - 1)] :
               t \in Samples(0..(total - 1), sample_size)}
    ELSE LET e0 == IF end_index = <<>> THEN total ELSE end_index[1]
             s1 == Max(0, Min(start_index, total - 1))
             e1 == Max(s1 + 1, Min(e0, total))
             stop == Min(e1, total)
         IN {[k \in 1..Max(0, stop - s1) |-> RowIndex(s1 + k - 1, k - 1)]}

(* load_csv_data: the set of frames it can return, each frame given by the *)
(* 'index' values of its rows. end_index is <<>> for None, <<k>> for k.    *)
load_csv_data(total, start_index, end_index, random_sample) ==
  IF random_sample > 0
    THEN LET sample_size == Min(random_sample, total)
         IN {S \in SUBSET (0..(total - 1)) : Cardinality(S) = sample_size}
    ELSE LET e0 == IF end_index = <<>> THEN total ELSE end_index[1]
             s1 == Max(0, Min(start_index, total - 1))
             e1 == Max(s1 + 1, Min(e0, total))
         IN {{i \in 0..(total - 1) : s1 <= i /\ i < e1}}

(* the frames load_csv_data can return over the start_index / end_index    *)
(* arguments tried                                                         *)
Frames(total, random_sample) ==
  UNION {load_csv_data(total, s, e, random_sample) :
           s \in 0..MaxRows, e \in {<<>>} \cup {<<k>> : k \in 0..MaxRows}}

(* A record log is NoFile or a file of cells: the header line, then        *)
(* for each written row its first three and its last three fields.         *)
HeadCell(r) == [part |-> "head", index |-> r.index, question |-> r.question,
                reference_answer |-> r.reference_answer]
TailCell(r) == [part |-> "tail", predicted_answer |-> r.predicted_answer,
                is_correct |-> r.is_correct, grade |-> r.grade]
RowOf(h, t) == [index |-> h.index, question |-> h.question,
                reference_answer |-> h.reference_answer,
                predicted_answer |-> t.predicted_answer,
                is_correct |-> t.is_correct, grade |-> t.grade]

(* pd.read_csv of a record log: the data rows, in file order *)
RECURSIVE ReadCells(_)
ReadCells(cells) ==
  IF Len(cells) < 2 THEN <<>>
  ELSE IF cells[1].part = "head" /\ cells[2].part = "tail"
    THEN <<RowOf(cells[1], cells[2])>> \o ReadCells(Tail(Tail(cells)))
  ELSE ReadCells(Tail(cells))
read_csv(file) == IF file.cells = <<>> THEN <<>> ELSE ReadCells(Tail(file.cells))

RowSet(file) == LET rows == read_csv(file) IN {rows[k] : k \in 1..Len(rows)}

(* a filter that takes only the correctly answered rows as processed *)
processed_only_correct(file) == {r.index : r \in {x \in RowSet(file) : x.is_correct}}

(* a prepare_examples that never filters *)
prepare_examples_unfiltered(frame, names, rerun, files, random_sample) ==
  [p \in names |-> frame]

(* prepare_examples: per provider name, the indices scheduled this run *)
processed_indices(file) == {r.index : r \in {x \in RowSet(file) : x.grade # ERROR}}
(* a prepare_examples that filters a resumed sample too *)
prepare_examples_filter_sample(frame, names, rerun, files, random_sample) ==
  [p \in names |->
     IF (~rerun) \/ ~files[p].exists
       THEN frame
       ELSE frame \ processed_indices(files[p])]

prepare_examples(frame, names, rerun, files, random_sample) ==
  [p \in names |->
     IF (~rerun) \/ random_sample > 0 \/ ~files[p].exists
       THEN frame
       ELSE frame \ processed_indices(files[p])]

(* round(correct / total, 3) in thousandths; 0 when total is 0.  Python     *)
(* rounds a tie to the even neighbour.                                      *)
Round3(correct, total) ==
  IF total = 0 THEN 0
  ELSE LET q == (1000 * correct) \div total
           r == (1000 * correct) % total
       IN IF 2 * r > total THEN q + 1
          ELSE IF 2 * r < total THEN q
          ELSE IF q % 2 = 0 THEN q ELSE q + 1

(* a summary row taken from evaluate_provider's in-memory counters *)
SummaryRowFromMemory(name, file) ==
  LET i == CHOOSE k \in Pairs(config) : PairName(config, k) = name
  IN [provider |-> name,
      accuracy |-> Round3(correct_count[i], Cardinality(examples[name])),
      correct_count |-> correct_count[i],
      total_count |-> Cardinality(examples[name])]

(* save_summary: the rows it writes, in provider_results order, up to the  *)
(* first provider whose record log pd.read_csv cannot open.                *)
SummaryRow(name, file) ==
  LET rows == read_csv(file)
      examples_count == Len(rows)
      correct == Cardinality({k \in 1..Len(rows) : rows[k].is_correct = TRUE})
  IN [provider |-> name, accuracy |-> Round3(correct, examples_count),
      correct_count |-> correct, total_count |-> examples_count]

RECURSIVE SummaryRows(_, _)
SummaryRows(names, files) ==
  IF names = <<>> THEN <<>>
  ELSE IF ~files[Head(names)].exists THEN <<>>
  ELSE <<SummaryRow(Head(names), files[Head(names)])>> \o SummaryRows(Tail(names), files)

save_summary_raises(names, files) == \E k \in 1..Len(names) : ~files[names[k]].exists

(* a save_result that always opens the file in 'w' mode *)
save_result_truncating(file, result) == File(<<HDR, HeadCell(result)>>)

(* a save_result that writes the header on every call *)
save_result_header_each(file, result) ==
  IF file.exists THEN File(file.cells \o <<HDR, HeadCell(result)>>)
  ELSE File(<<HDR, HeadCell(result)>>)

(* save_result: open in 'a' mode if the file exists, else 'w' and write    *)
(* the header; then write the row.                                         *)
save_result_begin(file, result) ==
  IF file.exists THEN File(file.cells \o <<HeadCell(result)>>)
  ELSE File(<<HDR, HeadCell(result)>>)
save_result_end(file, result) == File(file.cells \o <<TailCell(result)>>)
save_result(file, result) == save_result_end(save_result_begin(file, result), result)

(* document numbers counted from 0 *)
DocNumberFromZero(i) == i

(* the number printed for the i-th pair of enumerate (i from 0): i + 1 *)
DocNumber(i) == i + 1

(* ProviderHandler._format_search_results_for_prompt.  A string is the    *)
(* sequence of its pieces; concatenation is \o.                           *)
FormatDoc(i, doc) ==
  <<"\n**Document ", ToString(DocNumber(i)), ".** Source: ", doc[1],
    "\nContent: ", doc[2]>>
RECURSIVE JoinFrom(_, _, _)
JoinFrom(sep, parts, k) ==
  IF k > Len(parts) THEN <<>>
  ELSE IF k = Len(parts) THEN parts[k]
  ELSE parts[k] \o sep \o JoinFrom(sep, parts, k + 1)
format_search_results_for_prompt(search_results) ==
  JoinFrom(<<"\n">>, [k \in 1..Len(search_results) |-> FormatDoc(k - 1, search_results[k])], 1)

(* The handlers' search: the dictionary returned for a successful call     *)
(* ("ok") and for a transport error or non-200 status ("fail").            *)
search(handler, outcome) ==
  IF outcome = "ok"
    THEN [answer |-> IF handler.is_llm_response \/ handler.kind = "exa"
                       THEN "text" ELSE "",
          keys |-> {"answer", "search_response"}, search_response |-> "data"]
  ELSE IF handler.kind = "tavily"
    THEN [answer |-> "", keys |-> {"answer", "raw_response"}, search_response |-> None]
  ELSE [answer |-> "", keys |-> {"answer", "search_response"}, search_response |-> None]

(* post_process of the document-style handlers: [raised, value] *)
post_process(handler, sr) ==
  IF "search_response" \notin sr.keys THEN [raised |-> FALSE, value |-> ""]
  ELSE IF sr.search_response = None THEN [raised |-> TRUE, value |-> ""]
  ELSE [raised |-> FALSE, value |-> "documents"]

(* an extract_answer that hands the failure on as an error marker *)
extract_answer_error(outcome) == IF outcome = "ok" THEN ANS ELSE ERROR

(* PostProcessor.extract_answer: the oracle's answer, or the sentinel when *)
(* the oracle call raises.                                                 *)
extract_answer(outcome) == IF outcome = "ok" THEN ANS ELSE SENTINEL

(* CorrectnessEvaluator.evaluate's possible results; score in tenths       *)
(* (1.0, 0.0, and 0.5 for a score that is neither)                         *)
GradeResults ==
  { [raised |-> FALSE, score |-> 10, value |-> "CORRECT"],
    [raised |-> FALSE, score |-> 0, value |-> "INCORRECT"],
    [raised |-> FALSE, score |-> 5, value |-> "NOT_ATTEMPTED"],
    [raised |-> TRUE, score |-> 0, value |-> ""] }

(* the grader's possible results for one answer: the extraction-failure   *)
(* sentence is what the grader labels NOT_ATTEMPTED; an extracted answer  *)
(* is graded CORRECT or INCORRECT; the call can raise for either           *)
evaluate(ans) ==
  {g \in GradeResults : g.raised \/ ((g.value = "NOT_ATTEMPTED") <=> (ans = SENTINEL))}

(* a test that takes every positive score as correct *)
ScorePositive(score) == score > 0

(* line 83: is_correct = evaluation_result['score'] == 1.0 *)
ScoreIsCorrect(score) == score = 10

(* the two dictionaries process_example appends to results *)
OkResult(index, ans, is_correct, grade) ==
  [index |-> index, question |-> Problem(index), reference_answer |-> Answer(index),
   predicted_answer |-> ans, is_correct |-> is_correct, grade |-> grade,
   error |-> FALSE]
ErrorResult(index) ==
  [index |-> index, question |-> Problem(index), reference_answer |-> Answer(index),
   predicted_answer |-> ERROR, is_correct |-> FALSE, grade |-> ERROR,
   error |-> TRUE]

(* an except clause that catches only I/O errors *)
CaughtOnlyOSError(exc) == exc \in {"OSError"}

(* 'except Exception' of process_example: the exception classes it catches, *)
(* among those the try block can raise: TypeError from post_process,       *)
(* the grader's error, and OSError or NameError from save_result.          *)
Caught(exc) == exc \in {"TypeError", "GraderError", "OSError"}

(* a save_result that awaits between its writes *)
SuspendsInSave(call) == call \in {"search", "evaluate", "save_result"}

(* calls of process_example at which the task is suspended: the awaited   *)
(* network calls.  save_result and extract_answer are plain calls.         *)
Suspends(call) == call \in {"search", "evaluate"}

(***************************************************************************)
(* State machine                                                           *)
(***************************************************************************)
(* a branch that takes the response's answer whenever there is one *)
SearchAnsPreferAnswer(handler, sr) ==
  IF sr.answer # ""
    THEN [raised |-> FALSE, value |-> sr.answer, post_process_calls |-> 0]
    ELSE LET n == post_process(handler, sr)
         IN [raised |-> n.raised, value |-> n.value, post_process_calls |-> 1]

(* lines 62-68: search_ans is the response's answer for an LLM-style      *)
(* handler, and post_process of the response otherwise                     *)
SearchAns(handler, sr) ==
  IF handler.is_llm_response
    THEN [raised |-> FALSE, value |-> sr.answer, post_process_calls |-> 0]
    ELSE LET n == post_process(handler, sr)
         IN [raised |-> n.raised, value |-> n.value, post_process_calls |-> 1]

(* a pipeline that grades right after the search *)
PhaseAfterNoExtract(phase) == "grading"

(* the statement order of the try block: search (line 60), search_ans     *)
(* (62-68), extract_answer (70-74), evaluate (77-81), save_result (100)    *)
PhaseAfter(phase) == IF phase = "searching" THEN "extracting" ELSE "grading"

NoSearchResult == [answer |-> "", keys |-> {}, search_response |-> None]
NoSearchAns == [value |-> "", post_process_calls |-> 0]
NoAnswer == ""

NoCall == [fn |-> "none"]
NoReturn == [returned |-> FALSE, value |-> <<>>]
Return(v) == [returned |-> TRUE, value |-> v]

(* the state before the first run, for a given dataset and configuration *)
Idle ==
  /\ logs = [n \in NameSet(config) |-> NoFile]
  /\ summary = NoFile
  /\ runs = 0
  /\ tasksUsed = 0
  /\ rs = "idle"
  /\ args = [rerun |-> FALSE, parallel |-> TRUE, random_sample |-> 0]
  /\ df = {}
  /\ examples = [n \in NameSet(config) |-> {}]
  /\ ps = [i \in Pairs(config) |-> "waiting"]
  /\ pc = [i \in Pairs(config) |-> <<>>]
  /\ search_result = [i \in Pairs(config) |-> <<>>]
  /\ search_ans = [i \in Pairs(config) |-> <<>>]
  /\ answer = [i \in Pairs(config) |-> <<>>]
  /\ results = [i \in Pairs(config) |-> <<>>]
  /\ correct_count = [i \in Pairs(config) |-> 0]
  /\ provider_results = <<>>
  /\ logs0 = logs
  /\ summary0 = summary
  /\ repeat = FALSE

Init ==
  /\ total_rows \in 0..MaxRows
  /\ config \in Configs
  /\ Idle
  /\ fn_call = NoCall
  /\ fn_ret = NoReturn

(* --random_sample: not given (0 stands for None), or a sample of one row *)
SampleSizes == {0, 1}

(* get_output_dir: without --rerun a run gets a new timestamped directory, *)
(* so the first run on the modelled directory is the fresh one and every  *)
(* later run on it is a rerun.                                             *)
Reruns(n) == IF n = 0 THEN {FALSE} ELSE {TRUE}

(* --sequential: with a single zipped provider both modes take the same   *)
(* steps, and the default (parallel) is the one explored.                  *)
Modes(params) == IF Cardinality(Pairs(params)) > 1 THEN BOOLEAN ELSE {TRUE}

Scheduled(i) == examples[PairName(config, i)]

(* a result whose total is the length of the results list *)
ProviderResultLenResults(i) ==
  [provider |-> PairName(config, i),
   results |-> results[i],
   accuracy |-> Round3(correct_count[i], Len(results[i])),
   correct_count |-> correct_count[i],
   total_count |-> Len(results[i])]

(* evaluate_provider's return value for pair i *)
ProviderResult(i) ==
  [provider |-> PairName(config, i),
   results |-> results[i],
   accuracy |-> Round3(correct_count[i], Cardinality(Scheduled(i))),
   correct_count |-> correct_count[i],
   total_count |-> Cardinality(Scheduled(i))]

(* sequential mode keeping only the latest provider's result *)
StoreResultOverwrite(prs, i) == <<ProviderResult(i)>>

(* sequential mode, line 197: provider_results[provider_name] = result *)
StoreResult(prs, i) == Append(prs, ProviderResult(i))

(* run_evaluation up to the first suspension: load, prepare, build the     *)
(* handlers, then start every provider (parallel) or the first one; each   *)
(* started process_example runs up to its await of search.                 *)
StartRun ==
  /\ rs \in {"idle", "done", "failed", "aborted"}
  /\ runs < MaxRuns
  /\ \E rerun \in Reruns(runs), parallel \in Modes(config), random_sample \in SampleSizes :
       \E frame \in Frames(total_rows, random_sample) :
         LET ex == prepare_examples(frame, NameSet(config), rerun, logs, random_sample)
             n == SeqSum([i \in Pairs(config) |-> Cardinality(ex[PairName(config, i)])])
             first(i) == parallel \/ i = 1
         IN /\ tasksUsed + n <= MaxTasks
            /\ tasksUsed' = tasksUsed + n
            /\ args' = [rerun |-> rerun, parallel |-> parallel,
                        random_sample |-> random_sample]
            /\ df' = frame
            /\ repeat' = (/\ rs \in {"done", "failed"}
                          /\ \A i \in Pairs(config) : \A e \in DOMAIN pc[i] : pc[i][e] = "ok"
                          /\ frame = df
                          /\ random_sample = args.random_sample)
            /\ examples' = ex
            /\ ps' = [i \in Pairs(config) |-> IF first(i) THEN "running" ELSE "waiting"]
            /\ pc' = [i \in Pairs(config) |->
                        [e \in ex[PairName(config, i)] |->
                           IF first(i) THEN "searching" ELSE "pending"]]
            /\ search_result' = [i \in Pairs(config) |->
                                   [e \in ex[PairName(config, i)] |-> NoSearchResult]]
            /\ search_ans' = [i \in Pairs(config) |->
                                [e \in ex[PairName(config, i)] |-> NoSearchAns]]
            /\ answer' = [i \in Pairs(config) |->
                            [e \in ex[PairName(config, i)] |-> NoAnswer]]
  /\ runs' = runs + 1
  /\ rs' = "running"
  /\ results' = [i \in Pairs(config) |-> <<>>]
  /\ correct_count' = [i \in Pairs(config) |-> 0]
  /\ provider_results' = <<>>
  /\ logs0' = logs
  /\ summary0' = summary
  /\ UNCHANGED <<fn_call, fn_ret, total_rows, config, logs, summary>>

(* The event loop runs one task at a time.  extract_answer is a plain     *)
(* (not awaited) call whose oracle request blocks the thread, so while a  *)
(* task is extracting no other coroutine of the loop is resumed.           *)
Blocked ==
  /\ ~Suspends("extract_answer")
  /\ \E i \in Pairs(config) : \E e \in DOMAIN pc[i] : pc[i][e] = "extracting"

(* process_example from the return of search to the call of               *)
(* extract_answer: lines 60-70, or the except branch when post_process    *)
(* raises.  An exception the except clause does not catch leaves through  *)
(* gather and evaluate_provider into run_evaluation's except branch,      *)
(* which ends the run; the event loop then closes and cancels the tasks   *)
(* still in flight.                                                        *)
SearchReturn(i, e) ==
  /\ rs = "running"
  /\ ps[i] = "running"
  /\ pc[i][e] = "searching"
  /\ ~Blocked
  /\ \E so \in {"ok", "fail"} :
       LET handler == PairHandler(config, i)
           sr == search(handler, so)
           norm == SearchAns(handler, sr)
       IN IF norm.raised /\ ~Caught("TypeError")
            THEN /\ pc' = [pc EXCEPT ![i][e] = "raised"]
                 /\ rs' = "failed"
                 /\ UNCHANGED <<search_result, search_ans, results>>
          ELSE IF norm.raised
            THEN /\ results' = [results EXCEPT ![i] = Append(@, ErrorResult(e))]
                 /\ pc' = [pc EXCEPT ![i][e] = "error"]
                 /\ UNCHANGED <<search_result, search_ans, rs>>
            ELSE /\ search_result' = [search_result EXCEPT ![i][e] = sr]
                 /\ search_ans' = [search_ans EXCEPT ![i][e] =
                                     [value |-> norm.value,
                                      post_process_calls |-> norm.post_process_calls]]
                 /\ pc' = [pc EXCEPT ![i][e] = PhaseAfter("searching")]
                 /\ UNCHANGED <<results, rs>>
  /\ UNCHANGED <<fn_call, fn_ret, total_rows, config, logs, summary, runs, tasksUsed, args, df,
                 examples, ps, answer, correct_count, provider_results, logs0,
                 summary0, repeat>>

(* process_example from the return of the extraction oracle to the await  *)
(* of evaluate: lines 70-77.  extract_answer itself never raises.          *)
ExtractReturn(i, e) ==
  /\ rs = "running"
  /\ ps[i] = "running"
  /\ pc[i][e] = "extracting"
  /\ \E xo \in {"ok", "fail"} :
       answer' = [answer EXCEPT ![i][e] = extract_answer(xo)]
  /\ pc' = [pc EXCEPT ![i][e] = PhaseAfter("extracting")]
  /\ UNCHANGED <<fn_call, fn_ret, total_rows, config, logs, summary, runs, tasksUsed, rs,
                 args, df, examples, ps, search_result, search_ans, results,
                 correct_count, provider_results, logs0, summary0, repeat>>

(* what a save_result call can do: return, or raise before writing *)
SaveOutcomes == {"ok", "raise"}

(* the dictionary with index e that the try branch appended to results[i] *)
AppendedOk(i, e) ==
  LET ks == {k \in 1..Len(results[i]) : results[i][k].index = e /\ ~results[i][k].error}
  IN results[i][CHOOSE k \in ks : TRUE]

(* process_example from the return of evaluate to its end: lines 83-102,   *)
(* or the except branch when evaluate or save_result raises.  The task is  *)
(* not suspended inside save_result, so the whole row is written here.     *)
GradeReturn(i, e) ==
  /\ rs = "running"
  /\ ps[i] = "running"
  /\ pc[i][e] \in {"grading", "saving"}
  /\ ~Blocked
  /\ LET name == PairName(config, i) IN
     IF pc[i][e] = "saving"
       THEN /\ logs' = [logs EXCEPT ![name] = save_result_end(@, AppendedOk(i, e))]
            /\ pc' = [pc EXCEPT ![i][e] = "ok"]
            /\ UNCHANGED <<results, correct_count, rs>>
       ELSE \E evaluation_result \in evaluate(answer[i][e]), wo \in SaveOutcomes :
              IF evaluation_result.raised /\ ~Caught("GraderError")
                THEN /\ pc' = [pc EXCEPT ![i][e] = "raised"]
                     /\ rs' = "failed"
                     /\ UNCHANGED <<logs, correct_count, results>>
              ELSE IF evaluation_result.raised
                THEN /\ results' = [results EXCEPT ![i] = Append(@, ErrorResult(e))]
                     /\ pc' = [pc EXCEPT ![i][e] = "error"]
                     /\ UNCHANGED <<logs, correct_count, rs>>
                ELSE LET is_correct == ScoreIsCorrect(evaluation_result.score)
                         grade == evaluation_result.value
                         result == OkResult(e, answer[i][e], is_correct, grade)
                     IN /\ correct_count' = [correct_count EXCEPT ![i] =
                                               IF is_correct THEN @ + 1 ELSE @]
                        /\ IF wo = "raise" /\ ~Caught("OSError")
                             THEN /\ results' = [results EXCEPT ![i] = Append(@, result)]
                                  /\ pc' = [pc EXCEPT ![i][e] = "raised"]
                                  /\ rs' = "failed"
                                  /\ UNCHANGED logs
                           ELSE IF wo = "raise"
                             THEN /\ results' = [results EXCEPT ![i] =
                                                   Append(Append(@, result), ErrorResult(e))]
                                  /\ pc' = [pc EXCEPT ![i][e] = "error"]
                                  /\ UNCHANGED <<logs, rs>>
                           ELSE IF Suspends("save_result")
                             THEN /\ results' = [results EXCEPT ![i] = Append(@, result)]
                                  /\ logs' = [logs EXCEPT ![name] = save_result_begin(@, result)]
                                  /\ pc' = [pc EXCEPT ![i][e] = "saving"]
                                  /\ UNCHANGED rs
                           ELSE /\ results' = [results EXCEPT ![i] = Append(@, result)]
                                /\ logs' = [logs EXCEPT ![name] = save_result(@, result)]
                                /\ pc' = [pc EXCEPT ![i][e] = "ok"]
                                /\ UNCHANGED rs
  /\ search_result' = [search_result EXCEPT ![i][e] =
                         IF pc'[i][e] = "saving" THEN @ ELSE NoSearchResult]
  /\ search_ans' = [search_ans EXCEPT ![i][e] =
                       IF pc'[i][e] = "saving" THEN @ ELSE NoSearchAns]
  /\ answer' = [answer EXCEPT ![i][e] = IF pc'[i][e] = "saving" THEN @ ELSE NoAnswer]
  /\ UNCHANGED <<fn_call, fn_ret, total_rows, config, summary, runs, tasksUsed, args, df,
                 examples, ps, provider_results, logs0, summary0, repeat>>

(* a gather that returns only when every example was recorded OK *)
TerminalOnlyOk(i) == \A e \in DOMAIN pc[i] : pc[i][e] = "ok"

(* asyncio.gather over the example tasks (line 118) returns when each     *)
(* process_example has returned its OK or its ERROR result                 *)
Terminal(i) == \A e \in DOMAIN pc[i] : pc[i][e] \in {"ok", "error"}

(* evaluate_provider after gather: lines 120-129.  In sequential mode      *)
(* run_evaluation stores the result and starts the next provider.          *)
ProviderReturn(i) ==
  /\ rs = "running"
  /\ ps[i] = "running"
  /\ Terminal(i)
  /\ ~Blocked
  /\ LET next == (~args.parallel) /\ (i + 1) \in Pairs(config) IN
       /\ ps' = [k \in Pairs(config) |->
                   IF k = i THEN "returned"
                   ELSE IF next /\ k = i + 1 THEN "running" ELSE ps[k]]
       /\ pc' = [k \in Pairs(config) |->
                   IF next /\ k = i + 1
                     THEN [e \in DOMAIN pc[k] |-> "searching"]
                     ELSE pc[k]]
  /\ provider_results' = IF args.parallel THEN provider_results
                         ELSE StoreResult(provider_results, i)
  /\ UNCHANGED <<fn_call, fn_ret, total_rows, config, logs, summary, runs, tasksUsed, rs, args, df,
                 examples, search_result, search_ans, answer, results, correct_count,
                 logs0, summary0, repeat>>

(* a gather that resumes its caller when the first provider returns *)
FirstReturned == Pairs(config) = {} \/ \E i \in Pairs(config) : ps[i] = "returned"

(* run_evaluation resumes after its await of asyncio.gather (line 183),   *)
(* or leaves the sequential loop (lines 188-197), when every zipped       *)
(* provider's evaluate_provider has returned                               *)
AllReturned == \A i \in Pairs(config) : ps[i] = "returned"

(* run_evaluation after every provider returned: lines 183-186 and 199;    *)
(* an exception of save_summary ends the run in the except branch.         *)
SaveSummary ==
  /\ rs = "running"
  /\ AllReturned
  /\ LET prs == IF args.parallel
                  THEN [i \in Pairs(config) |-> ProviderResult(i)]
                  ELSE provider_results
         names == [k \in 1..Len(prs) |-> prs[k].provider]
     IN /\ provider_results' = prs
        /\ summary' = File(SummaryRows(names, logs))
        /\ rs' = IF save_summary_raises(names, logs) THEN "failed" ELSE "done"
  /\ UNCHANGED <<fn_call, fn_ret, total_rows, config, logs, runs, tasksUsed, args, df,
                 examples, ps, pc, search_result, search_ans, answer, results, correct_count,
                 logs0, summary0, repeat>>

(* the statements of run_evaluation's try block, in program order *)
RunStepsSummaryFirst ==
  <<"save_summary", "load_csv_data", "prepare_examples", "get_search_handlers",
    "makedirs", "evaluate_provider">>
RunSteps ==
  <<"load_csv_data", "prepare_examples", "get_search_handlers", "makedirs",
    "evaluate_provider", "save_summary">>
Before(a, b) ==
  \E j, k \in 1..Len(RunSteps) : RunSteps[j] = a /\ RunSteps[k] = b /\ j < k

(* the setup statements that raise: load_csv_data (file missing or a      *)
(* required column missing) and get_search_handlers (a handler's          *)
(* constructor raises ValueError for a missing API key)                    *)
FailingSteps == {"load_csv_data", "get_search_handlers"}

(* run_evaluation when a setup statement raises: the statements before it *)
(* have run, the except branch logs the error and the function returns.   *)
(* Of those statements only save_summary writes a file; no failing step   *)
(* comes after evaluate_provider.                                          *)
SetupFails(step) ==
  /\ rs \in {"idle", "done", "failed", "aborted"}
  /\ runs < MaxRuns
  /\ ~Before("evaluate_provider", step)
  /\ rs' = "aborted"
  /\ summary' = IF Before("save_summary", step)
                  THEN File(SummaryRows([i \in Pairs(config) |-> PairName(config, i)], logs))
                  ELSE summary
  /\ UNCHANGED <<fn_call, fn_ret, total_rows, config, logs, runs, tasksUsed, args, df, examples,
                 ps, pc, search_result, search_ans, answer, results, correct_count,
                 provider_results, logs0, summary0, repeat>>

Next ==
  \/ StartRun
  \/ \E step \in FailingSteps : SetupFails(step)
  \/ \E i \in Pairs(config) : \E e \in DOMAIN pc[i] : SearchReturn(i, e)
  \/ \E i \in Pairs(config) : \E e \in DOMAIN pc[i] : ExtractReturn(i, e)
  \/ \E i \in Pairs(config) : \E e \in DOMAIN pc[i] : GradeReturn(i, e)
  \/ \E i \in Pairs(config) : ProviderReturn(i)
  \/ SaveSummary

Spec == Init /\ [][Next]_vars

(* a step of the running run: the event loop resumes a coroutine whose    *)
(* call has returned                                                       *)
Resume ==
  \/ \E i \in Pairs(config) : \E e \in DOMAIN pc[i] : SearchReturn(i, e)
  \/ \E i \in Pairs(config) : \E e \in DOMAIN pc[i] : ExtractReturn(i, e)
  \/ \E i \in Pairs(config) : \E e \in DOMAIN pc[i] : GradeReturn(i, e)
  \/ \E i \in Pairs(config) : ProviderReturn(i)
  \/ SaveSummary

(* Every awaited or blocking call eventually returns or raises, and the   *)
(* event loop keeps running while a coroutine can be resumed: as long as  *)
(* the run can take a step it eventually takes one.  Starting a run is    *)
(* the user's choice and has no fairness.                                  *)
Fairness == WF_vars(Resume)

SpecLive == Init /\ [][Next]_vars /\ Fairness

(***************************************************************************)
(* Calls of the pure functions                                             *)
(***************************************************************************)
run_vars == <<total_rows, config, logs, summary, runs, tasksUsed, rs, args, df,
              examples, ps, pc, search_result, search_ans, answer, results, correct_count,
              provider_results, logs0, summary0, repeat>>

(* (url, content) pairs of a search response, and the lists of them *)
Urls == {"https://a", "https://b"}
Contents == {"X", "Y"}
DocLists == UNION {[1..n -> Urls \X Contents] : n \in 0..MaxDocs}

FormatCalls == {[fn |-> "format", search_results |-> d] : d \in DocLists}
LoadCalls ==
  {[fn |-> "load_csv_data", total |-> t, start_index |-> s, end_index |-> e,
    random_sample |-> r] :
     t \in 0..MaxRows, s \in 0..MaxRows,
     e \in {<<>>} \cup {<<k>> : k \in 0..MaxRows}, r \in 0..MaxRows}

InitPure ==
  /\ total_rows = 0
  /\ config = <<Entry("Exa", FALSE)>>
  /\ Idle
  /\ fn_call \in FormatCalls \cup LoadCalls
  /\ fn_ret = NoReturn

CallFormat ==
  /\ fn_call.fn = "format"
  /\ ~fn_ret.returned
  /\ fn_ret' = Return(format_search_results_for_prompt(fn_call.search_results))
  /\ UNCHANGED <<fn_call, run_vars>>

CallLoad ==
  /\ fn_call.fn = "load_csv_data"
  /\ ~fn_ret.returned
  /\ \E rows \in load_csv_rows(fn_call.total, fn_call.start_index,
                                fn_call.end_index, fn_call.random_sample) :
       fn_ret' = Return(rows)
  /\ UNCHANGED <<fn_call, run_vars>>

NextPure ==
  \/ CallFormat
  \/ CallLoad

SpecPure == InitPure /\ [][NextPure]_vars

(***************************************************************************)
(* Properties                                                              *)
(***************************************************************************)
Count(seq, P(_)) == Cardinality({k \in 1..Len(seq) : P(seq[k])})

(* the rows appended to provider name n's record log since the run started *)
RowsThisRun(n) ==
  LET now == read_csv(logs[n])
      before == Len(read_csv(logs0[n]))
  IN SubSeq(now, before + 1, Len(now))

Finished(i, e) == pc[i][e] \in {"ok", "error"}
Ended == rs \in {"done", "failed"}

(* C1: for every provider and every example scheduled for it, once the    *)
(* example's task has completed (OK or in error) exactly one record for   *)
(* the example has been appended to the provider's record log by this run.*)
C1_OneRecordPerCompletedExample ==
  \A i \in Pairs(config) : \A e \in DOMAIN pc[i] :
    Finished(i, e) =>
      LET IsE(r) == r.index = e
      IN Count(RowsThisRun(PairName(config, i)), IsE) = 1

(* C2: per-example failure isolation.  No exception of an example's       *)
(* pipeline leaves process_example; an example whose pipeline raised has  *)
(* a result with predicted_answer "ERROR", grade "ERROR", is_correct      *)
(* false; evaluate_provider returns only when every scheduled example is  *)
(* terminal; an example that ended OK has exactly its own record in       *)
(* results and in the log; and a step in which one example fails changes  *)
(* nothing of its siblings (their position, locals and result entries).   *)
C2_StateInv ==
  /\ \A i \in Pairs(config) : \A e \in DOMAIN pc[i] :
       /\ pc[i][e] # "raised"
       /\ pc[i][e] = "error" =>
            \E k \in 1..Len(results[i]) :
              /\ results[i][k].index = e
              /\ results[i][k].predicted_answer = "ERROR"
              /\ results[i][k].grade = "ERROR"
              /\ results[i][k].is_correct = FALSE
       /\ pc[i][e] = "ok" =>
            LET IsE(r) == r.index = e
                IsOkE(r) == r.index = e /\ r.predicted_answer # "ERROR" /\ r.grade # "ERROR"
            IN /\ Count(results[i], IsE) = 1
               /\ Count(results[i], IsOkE) = 1
               /\ Count(RowsThisRun(PairName(config, i)), IsOkE) = 1
  /\ \A i \in Pairs(config) :
       ps[i] = "returned" => \A e \in examples[PairName(config, i)] : Finished(i, e)
  /\ Ended => \A i \in Pairs(config) : ps[i] = "returned"

EntriesOf(i, e) == SelectSeq(results[i], LAMBDA r : r.index = e)

C2_StepInv ==
  \A i \in Pairs(config) : \A e \in DOMAIN pc[i] :
    (rs = "running" /\ rs' = "running" /\ pc[i][e] # "error" /\ pc'[i][e] = "error") =>
      \A e2 \in DOMAIN pc[i] \ {e} :
        /\ pc'[i][e2] = pc[i][e2]
        /\ answer'[i][e2] = answer[i][e2]
        /\ search_result'[i][e2] = search_result[i][e2]
        /\ SelectSeq(results'[i], LAMBDA r : r.index = e2) = EntriesOf(i, e2)

C2_FailureIsolation == []C2_StateInv /\ [][C2_StepInv]_vars

(* a provider returned with one example in error and a sibling that ended OK *)
C2_Witness ==
  \E i \in Pairs(config) :
    /\ ps[i] = "returned"
    /\ \E e1, e2 \in DOMAIN pc[i] : pc[i][e1] = "error" /\ pc[i][e2] = "ok"

(* C3: in a resume run (rerun set, no random sample, provider log         *)
(* present) the examples scheduled for a provider are exactly the loaded  *)
(* ones whose index has no row with a grade other than "ERROR" in the     *)
(* provider's log as it was when the run started.                          *)
C3_ResumeFilter ==
  rs # "idle" =>
    \A n \in NameSet(config) :
      (args.rerun /\ args.random_sample = 0 /\ logs0[n].exists) =>
        LET rows == read_csv(logs0[n])
        IN examples[n] =
             {e \in df : ~\E k \in 1..Len(rows) :
                            rows[k].index = e /\ rows[k].grade # "ERROR"}

(* a resume run that leaves out a previously wrong answer and schedules an *)
(* index without a row                                                     *)
C3_Witness ==
  /\ rs = "running" /\ args.rerun /\ args.random_sample = 0
  /\ \E n \in NameSet(config) :
       /\ logs0[n].exists
       /\ \E e1 \in df \ examples[n] :
            \E r \in RowSet(logs0[n]) : r.index = e1 /\ r.grade = "INCORRECT"
       /\ \E e2 \in examples[n] : \A r \in RowSet(logs0[n]) : r.index # e2

(* C4 as stated: a resume run that repeats the frame and configuration of *)
(* a previous run without errors writes no record and leaves the summary  *)
(* unchanged.                                                              *)
C4_ResumeIdempotent ==
  (repeat /\ args.rerun) => (logs = logs0 /\ summary = summary0)

(* C4 amended: the same, for a resume run that requests no random sample. *)
C4_ResumeIdempotentNoSample ==
  (repeat /\ args.rerun /\ args.random_sample = 0) =>
    (logs = logs0 /\ summary = summary0)

(* a finished resume run without sample after a run that recorded rows *)
C4_Witness ==
  /\ rs = "done" /\ repeat /\ args.rerun /\ args.random_sample = 0
  /\ \E n \in NameSet(config) : Len(read_csv(logs0[n])) > 0
  /\ \E k \in 1..Len(summary.cells) : summary.cells[k].total_count > 0

(* C5: after a run, an example that ended in error has a row with         *)
(* predicted_answer "ERROR" in its provider's record log, and the         *)
(* provider's summary row counts it in total_count and not in             *)
(* correct_count.                                                          *)
C5_FailedExampleInLogAndDenominator ==
  rs = "done" =>
    \A i \in Pairs(config) : \A e \in DOMAIN pc[i] :
      pc[i][e] = "error" =>
        LET n == PairName(config, i)
            IsErrE(r) == r.index = e /\ r.predicted_answer = "ERROR" /\ ~r.is_correct
        IN /\ Count(RowsThisRun(n), IsErrE) = 1
           /\ \E k \in 1..Len(summary.cells) :
                /\ summary.cells[k].provider = n
                /\ summary.cells[k].total_count >=
                     Len(read_csv(logs0[n])) + Cardinality(examples[n])

(* C6: every ProviderResult has correct_count = number of results with    *)
(* is_correct, total_count = number of examples scheduled,                *)
(* 0 <= correct_count <= total_count, and accuracy (in thousandths) the   *)
(* multiple of 0.001 nearest to correct_count / total_count, 0 when       *)
(* total_count is 0.                                                       *)
Nearest(acc, c, t) ==
  IF t = 0 THEN acc = 0
  ELSE LET d == 1000 * c - acc * t IN 2 * d <= t /\ 2 * (0 - d) <= t

C6_AccuracyInvariant ==
  \A k \in 1..Len(provider_results) :
    LET pr == provider_results[k]
        IsCorrect(r) == r.is_correct
    IN /\ pr.correct_count = Count(pr.results, IsCorrect)
       /\ pr.total_count = Cardinality(examples[pr.provider])
       /\ 0 <= pr.correct_count /\ pr.correct_count <= pr.total_count
       /\ Nearest(pr.accuracy, pr.correct_count, pr.total_count)

(* a result with one correct example out of two, one of which failed in   *)
(* save_result after its OK entry was appended                             *)
C6_Witness ==
  \E k \in 1..Len(provider_results) :
    /\ provider_results[k].total_count = 2
    /\ provider_results[k].correct_count = 1
    /\ provider_results[k].accuracy = 500
    /\ Len(provider_results[k].results) = 3

(* C7: every summary row is computed from the provider's record log:      *)
(* total_count is the number of rows, correct_count the number of rows    *)
(* with is_correct, accuracy their rounded quotient.                       *)
C7_SummaryFromLog ==
  Ended =>
    \A k \in 1..Len(summary.cells) :
      LET row == summary.cells[k]
          rows == read_csv(logs[row.provider])
          IsCorrect(r) == r.is_correct
      IN /\ row.total_count = Len(rows)
         /\ row.correct_count = Count(rows, IsCorrect)
         /\ Nearest(row.accuracy, row.correct_count, row.total_count)

(* a summary row that differs from the in-memory counters of the run *)
C7_Witness ==
  /\ rs = "done"
  /\ \E k \in 1..Len(summary.cells) : \E j \in 1..Len(provider_results) :
       /\ summary.cells[k].provider = provider_results[j].provider
       /\ summary.cells[k].total_count # provider_results[j].total_count
       /\ summary.cells[k].correct_count # provider_results[j].correct_count

(* C8: after a run the summary file has exactly one row for every         *)
(* provider of the configuration.                                          *)
C8_OneSummaryRowPerProvider ==
  Ended =>
    \A n \in NameSet(config) :
      LET IsN(row) == row.provider = n
      IN summary.exists /\ Count(summary.cells, IsN) = 1

(* C9: the outcome of a run does not depend on the provider mode.  When   *)
(* the run has ended, in either mode, there is one ProviderResult per     *)
(* zipped provider, in configuration order, with the counts of that       *)
(* provider's own examples; the rows the run added to each provider's log *)
(* are exactly the records of its examples that ended OK; and the summary *)
(* rows are those computed from the logs in configuration order.          *)
PairNames == [i \in Pairs(config) |-> PairName(config, i)]

C9_ModeIndependentOutcome ==
  Ended =>
    /\ Len(provider_results) = Cardinality(Pairs(config))
    /\ \A i \in Pairs(config) :
         LET n == PairName(config, i)
             pr == provider_results[i]
             IsCorrect(r) == r.is_correct
             okResults == {results[i][k] : k \in {j \in 1..Len(results[i]) :
                              ~results[i][j].error /\ pc[i][results[i][j].index] = "ok"}}
             added == RowsThisRun(n)
         IN /\ pr.provider = n
            /\ pr.results = results[i]
            /\ pr.total_count = Cardinality(examples[n])
            /\ pr.correct_count = Count(results[i], IsCorrect)
            /\ {added[k] : k \in 1..Len(added)} =
                 {RowOf(HeadCell(r), TailCell(r)) : r \in okResults}
            /\ Len(added) = Cardinality({e \in DOMAIN pc[i] : pc[i][e] = "ok"})
    /\ summary.cells = SummaryRows(PairNames, logs)

(* a sequential run of two providers that ended with both results stored  *)
(* and a row added to the second provider's log                            *)
C9_Witness ==
  /\ rs = "done" /\ ~args.parallel
  /\ Len(provider_results) = 2
  /\ Len(RowsThisRun(PairName(config, 2))) > 0
  /\ Len(summary.cells) = 2

(* C10: record-level write atomicity.  Every record log consists of the   *)
(* header line followed by whole rows: each row's leading fields are      *)
(* followed directly by the trailing fields of the same record, and no    *)
(* row is mixed with another or cut short, under every interleaving of    *)
(* the example tasks (a last row may lack its trailing fields only while  *)
(* its own save_result is still writing); every row the run added is the  *)
(* record of one result of that provider.                                  *)
C10_RowsWellFormed ==
  /\ \A i \in Pairs(config) :
       LET added == RowsThisRun(PairName(config, i))
       IN \A k \in 1..Len(added) :
            \E j \in 1..Len(results[i]) :
              /\ ~results[i][j].error
              /\ added[k] = RowOf(HeadCell(results[i][j]), TailCell(results[i][j]))
  /\ \A n \in NameSet(config) :
    LET c == logs[n].cells
    IN logs[n].exists =>
         /\ Len(c) >= 1 /\ c[1] = HDR
         /\ \/ Len(c) % 2 = 1
            \/ \E i \in Pairs(config) : \E e \in DOMAIN pc[i] :
                 PairName(config, i) = n /\ pc[i][e] = "saving"
         /\ \A k \in 2..Len(c) :
              IF k % 2 = 0 THEN c[k].part = "head" ELSE c[k].part = "tail"
         /\ \A k \in 2..Len(c) :
              (k % 2 = 0 /\ k < Len(c)) =>
                /\ c[k].index \in 0..(total_rows - 1)
                /\ c[k].question = Problem(c[k].index)
                /\ c[k].reference_answer = Answer(c[k].index)
                /\ \E r \in RowSet(logs[n]) :
                     c[k] = HeadCell(r) /\ c[k + 1] = TailCell(r)

(* two example tasks of one provider were in flight together and both     *)
(* appended their record to the provider's log                             *)
C10_Witness ==
  \E i \in Pairs(config) :
    /\ Cardinality(DOMAIN pc[i]) = 2
    /\ \A e \in DOMAIN pc[i] : pc[i][e] = "ok"
    /\ Len(RowsThisRun(PairName(config, i))) = 2

(* the search of example e of pair i returned its failure dictionary: the *)
(* payload is None (the task holds the dictionary while it is grading)    *)
SearchFailed(i, e) ==
  search_result[i][e].keys # {} /\ search_result[i][e].search_response = None

(* C11: when the provider's search failed, the example ends with the      *)
(* record {predicted_answer "ERROR", grade "ERROR", is_correct false}:    *)
(* the step that completes such an example appends that result and        *)
(* leaves it in state "error", for every provider variant.                 *)
C11_Step ==
  \A i \in Pairs(config) : \A e \in DOMAIN pc[i] :
    (rs = "running" /\ pc[i][e] = "grading" /\ SearchFailed(i, e)
       /\ pc'[i][e] \in {"ok", "error"}) =>
      LET last == results'[i][Len(results'[i])]
      IN /\ pc'[i][e] = "error"
         /\ last.index = e
         /\ last.predicted_answer = "ERROR"
         /\ last.grade = "ERROR"
         /\ last.is_correct = FALSE

C11_SearchFailureRecordedAsError == [][C11_Step]_vars

(* the provider names get_search_handlers builds a handler for *)
Recognized(n) == Lower(n) \in {"tavily", "exa", "gptr", "perplexity"}

(* C12: a configured name that matches no recognized provider is skipped: *)
(* no example task runs under that name and no record log is written for *)
(* it; every recognized name is evaluated with the handler of its own     *)
(* provider.                                                               *)
C12_UnrecognizedSkipped ==
  /\ \A n \in NameSet(config) :
       ~Recognized(n) =>
         /\ ~logs[n].exists
         /\ \A i \in Pairs(config) : PairName(config, i) = n => DOMAIN pc[i] = {}
  /\ \A i \in Pairs(config) :
       DOMAIN pc[i] # {} => PairHandler(config, i).kind = Lower(PairName(config, i))

(* C13: no filtering outside resume.  In a fresh run, and in any run that *)
(* requests a random sample (also with the resume flag and existing       *)
(* logs), every loaded example is scheduled for every provider name, and  *)
(* every zipped provider gets one task per loaded example.                 *)
C13_NoFilterOutsideResume ==
  (rs # "idle" /\ (~args.rerun \/ args.random_sample > 0)) =>
    /\ \A n \in NameSet(config) : examples[n] = df
    /\ \A i \in Pairs(config) : DOMAIN pc[i] = df

(* a resumed run with a sample whose row already has a graded record in   *)
(* the provider's log, and is scheduled again                              *)
C13_Witness ==
  /\ rs = "running" /\ args.rerun /\ args.random_sample > 0
  /\ \E i \in Pairs(config) : \E e \in DOMAIN pc[i] :
       /\ pc[i][e] = "searching"
       /\ \E r \in RowSet(logs0[PairName(config, i)]) : r.index = e /\ r.grade # "ERROR"

(* C14: a setup-time failure ends the run before any scheduling.  The     *)
(* step in which the run aborts starts no example task, issues no search, *)
(* and writes no record and no summary row; in the aborted state no task  *)
(* is pending or in flight.                                                *)
C14_Step ==
  rs' = "aborted" =>
    /\ logs' = logs
    /\ summary' = summary
    /\ pc' = pc /\ ps' = ps
    /\ tasksUsed' = tasksUsed
    /\ results' = results /\ provider_results' = provider_results

C14_NoTaskInFlight ==
  rs = "aborted" =>
    \A i \in Pairs(config) : \A e \in DOMAIN pc[i] : pc[i][e] \in {"ok", "error"}

C14_SetupFailureBeforeScheduling == []C14_NoTaskInFlight /\ [][C14_Step]_vars

(* a run aborted in setup on a directory that holds the records and the   *)
(* summary of an earlier run                                               *)
C14_Witness ==
  /\ rs = "aborted"
  /\ summary.exists /\ Len(summary.cells) > 0
  /\ \E n \in NameSet(config) : Len(read_csv(logs[n])) > 0

(* C15: the summary is written only after every provider has finished,   *)
(* in both modes, and at most once per run: a step that changes the       *)
(* summary file, and the step that ends a running run, happen only when   *)
(* every zipped provider has returned with each of its scheduled examples *)
(* in a terminal state; the file changes in no other step of a run.        *)
AllFinished ==
  \A i \in Pairs(config) :
    /\ ps[i] = "returned"
    /\ \A e \in examples[PairName(config, i)] : pc[i][e] \in {"ok", "error"}

C15_Step ==
  /\ (rs = "running" /\ rs' # "running") => AllFinished
  /\ (summary' # summary) => (rs = "running" /\ rs' \in {"done", "failed"} /\ AllFinished)
  /\ (rs # "running" /\ rs' # "running") => summary' = summary

C15_SummaryAfterAllProviders == [][C15_Step]_vars

(* the summary was written at the end of a parallel run of two providers, *)
(* and of a sequential one                                                 *)
C15_Witness ==
  /\ rs = "done" /\ Len(summary.cells) = 2
  /\ \A i \in Pairs(config) : DOMAIN pc[i] # {}

(* C16: when the extraction oracle fails, extract_answer returns the      *)
(* sentinel string instead of raising; the example goes on to grading     *)
(* with the sentinel as its answer, and when grading and saving succeed   *)
(* it is recorded with predicted_answer = the sentinel and the grader's   *)
(* verdict, not as an ERROR record.                                        *)
Verdict(r) ==
  \E g \in GradeResults :
    ~g.raised /\ r.grade = g.value /\ r.is_correct = (g.score = 10)

C16_State ==
  \A i \in Pairs(config) :
    /\ \A e \in DOMAIN pc[i] :
         pc[i][e] \in {"grading", "saving"} => answer[i][e] \in {ANS, SENTINEL}
    /\ \A k \in 1..Len(results[i]) :
         results[i][k].predicted_answer = SENTINEL =>
           /\ ~results[i][k].error
           /\ Verdict(results[i][k])

C16_Step ==
  \A i \in Pairs(config) : \A e \in DOMAIN pc[i] :
    (rs = "running" /\ pc[i][e] = "grading" /\ answer[i][e] = SENTINEL
       /\ pc'[i][e] = "ok") =>
      LET rows == read_csv(logs'[PairName(config, i)])
          last == rows[Len(rows)]
      IN /\ Len(rows) = Len(read_csv(logs[PairName(config, i)])) + 1
         /\ last.index = e
         /\ last.predicted_answer = SENTINEL
         /\ Verdict(last)

C16_SentinelOnExtractionFailure == []C16_State /\ [][C16_Step]_vars

(* an example whose extraction failed was graded and recorded with the    *)
(* sentinel as its predicted answer                                        *)
C16_Witness ==
  \E i \in Pairs(config) : \E e \in DOMAIN pc[i] :
    /\ pc[i][e] = "ok"
    /\ \E r \in RowSet(logs[PairName(config, i)]) :
         r.index = e /\ r.predicted_answer = SENTINEL /\ r.grade = "NOT_ATTEMPTED"

(* C17: for every grader result the record's is_correct is true exactly   *)
(* when the score is 1.0, false for any other score, and the record's     *)
(* grade is the grader's label unchanged: every record that is not an     *)
(* error record, in results and in the log, carries the label of one      *)
(* grader result and is_correct = (that result's score is 1.0).            *)
C17_State ==
  /\ \A i \in Pairs(config) : \A k \in 1..Len(results[i]) :
       ~results[i][k].error => Verdict(results[i][k])
  /\ \A n \in NameSet(config) : \A r \in RowSet(logs[n]) : Verdict(r)

C17_Step ==
  \A i \in Pairs(config) : \A e \in DOMAIN pc[i] :
    (rs = "running" /\ pc[i][e] = "grading" /\ pc'[i][e] = "ok") =>
      LET rows == read_csv(logs'[PairName(config, i)])
          last == rows[Len(rows)]
          res == results'[i][Len(results'[i])]
      IN /\ Verdict(res)
         /\ last.grade = res.grade /\ last.is_correct = res.is_correct
         /\ last.predicted_answer = answer[i][e]

C17_IsCorrectIffScoreOne == []C17_State /\ [][C17_Step]_vars

(* a record graded with a score that is neither 0.0 nor 1.0, and one      *)
(* graded 1.0                                                              *)
C17_Witness ==
  \E n \in NameSet(config) :
    /\ \E r \in RowSet(logs[n]) : r.grade = "NOT_ATTEMPTED" /\ ~r.is_correct
    /\ \E r \in RowSet(logs[n]) : r.grade = "CORRECT" /\ r.is_correct

(* C18: the normalizer renders a list of (url, content) pairs as one      *)
(* string in which document n (from 1) is the n-th pair, in input order,  *)
(* each rendered as "\n**Document n.** Source: url\nContent: content",     *)
(* the renderings joined by a newline; the empty list gives the empty     *)
(* string.                                                                 *)
C18_DocumentRendering ==
  (fn_call.fn = "format" /\ fn_ret.returned) =>
    LET docs == fn_call.search_results
        out == fn_ret.value
        L == Len(docs)
    IN /\ L = 0 => out = <<>>
       /\ L > 0 => Len(out) = 7 * L - 1
       /\ \A n \in 1..L :
            /\ SubSeq(out, 7 * (n - 1) + 1, 7 * (n - 1) + 6) =
                 <<"\n**Document ", ToString(n), ".** Source: ", docs[n][1],
                   "\nContent: ", docs[n][2]>>
            /\ n < L => out[7 * n] = "\n"

(* the normalizer returned the rendering of two different documents *)
C18_Witness ==
  /\ fn_call.fn = "format" /\ fn_ret.returned
  /\ Len(fn_call.search_results) = 2
  /\ fn_call.search_results[1] # fn_call.search_results[2]

(* the file positions a slice call covers: from the clamped start_index   *)
(* up to the clamped end_index                                             *)
SliceStart(c) == Max(0, Min(c.start_index, c.total - 1))

(* C19 as stated: the index of each loaded example is its zero-based      *)
(* position in the loaded frame (0, 1, 2, ... whatever start_index), and  *)
(* indices are unique within the loaded set.                               *)
C19_IndexIsPositionAfterSlicing ==
  (fn_call.fn = "load_csv_data" /\ fn_ret.returned) =>
    LET rows == fn_ret.value
    IN /\ \A k \in 1..Len(rows) : rows[k] = k - 1
       /\ \A j, k \in 1..Len(rows) : j # k => rows[j] # rows[k]

(* C19 amended: the index of each loaded example is the row's zero-based  *)
(* position in the whole dataset file: row k of a slice has index         *)
(* (clamped start_index) + k, a sampled row keeps its file position; the  *)
(* indices are unique within the loaded set, and they are the frame the   *)
(* run schedules.                                                          *)
C19_IndexIsPositionInFile ==
  (fn_call.fn = "load_csv_data" /\ fn_ret.returned) =>
    LET rows == fn_ret.value
    IN /\ \A k \in 1..Len(rows) : rows[k] \in 0..(fn_call.total - 1)
       /\ fn_call.random_sample = 0 =>
            \A k \in 1..Len(rows) : rows[k] = SliceStart(fn_call) + k - 1
       /\ fn_call.random_sample > 0 =>
            Len(rows) = Min(fn_call.random_sample, fn_call.total)
       /\ \A j, k \in 1..Len(rows) : j # k => rows[j] # rows[k]
       /\ {rows[k] : k \in 1..Len(rows)} \in
            load_csv_data(fn_call.total, fn_call.start_index, fn_call.end_index,
                          fn_call.random_sample)

(* a slice that starts at the second row of a two-row file was loaded *)
C19_Witness ==
  /\ fn_call.fn = "load_csv_data" /\ fn_ret.returned
  /\ fn_call.random_sample = 0 /\ fn_call.start_index = 1 /\ fn_call.total = 2
  /\ fn_ret.value = <<1>>

(* C20: a failed search does not raise; it returns a response with the    *)
(* empty answer and no payload, in the same shape for every provider:     *)
(* the dictionary a task holds after a failed search has the keys of the  *)
(* dictionary the same handler returns for a successful search.            *)
C20_FailureResponseShape ==
  \A i \in Pairs(config) : \A e \in DOMAIN pc[i] :
    (pc[i][e] = "grading" /\ SearchFailed(i, e)) =>
      /\ search_result[i][e].answer = ""
      /\ search_result[i][e].keys = {"answer", "search_response"}
      /\ search_result[i][e].keys = search(PairHandler(config, i), "ok").keys

(* C21: the normalizer step of a document-style handler cannot fail: for  *)
(* every response the handler's search returns, the failure response      *)
(* included, the step that follows the search takes the example to the    *)
(* extraction, with a string as the extractor's input.                     *)
C21_Step ==
  \A i \in Pairs(config) : \A e \in DOMAIN pc[i] :
    (rs = "running" /\ pc[i][e] = "searching" /\ pc'[i][e] # "searching"
       /\ ~PairHandler(config, i).is_llm_response) =>
      /\ pc'[i][e] = "extracting"
      /\ search_ans'[i][e].value \in {"", "documents"}

C21_NormalizerCannotFail == [][C21_Step]_vars

(* C22: the provider's counter of correct answers counts exactly the      *)
(* examples that ended recorded OK with is_correct true; an example that  *)
(* ended in the error outcome is not counted.                              *)
C22_CorrectCountOnlyRecordedOk ==
  \A i \in Pairs(config) :
    correct_count[i] =
      Cardinality({e \in DOMAIN pc[i] :
                     /\ pc[i][e] = "ok"
                     /\ \E k \in 1..Len(results[i]) :
                          /\ results[i][k].index = e
                          /\ ~results[i][k].error
                          /\ results[i][k].is_correct})

(* C23: within one example the phases happen in the order search,         *)
(* normalize (document-style only), extract, grade, record.  Each phase   *)
(* starts from the value the previous one returned: a task is extracting  *)
(* only with the search response in hand and no answer yet, it is grading *)
(* only with the extractor's answer, and the OK result and the log row of *)
(* an example are written only by the step in which its grading returned. *)
C23_State ==
  \A i \in Pairs(config) : \A e \in DOMAIN pc[i] :
    /\ pc[i][e] = "searching" =>
         search_result[i][e] = NoSearchResult /\ answer[i][e] = NoAnswer
    /\ pc[i][e] = "extracting" =>
         search_result[i][e].keys # {} /\ answer[i][e] = NoAnswer
    /\ pc[i][e] = "grading" =>
         search_result[i][e].keys # {} /\ answer[i][e] \in {ANS, SENTINEL}

C23_Step ==
  \A i \in Pairs(config) : \A e \in DOMAIN pc[i] :
    rs = "running" =>
      /\ (pc[i][e] = "searching" /\ pc'[i][e] # "searching") =>
           pc'[i][e] \in {"extracting", "error", "raised"}
      /\ (pc[i][e] = "extracting" /\ pc'[i][e] # "extracting") =>
           pc'[i][e] = "grading"
      /\ (pc[i][e] = "grading" /\ pc'[i][e] # "grading") =>
           pc'[i][e] \in {"ok", "error"}
      /\ (\E k \in Len(results[i]) + 1 .. Len(results'[i]) :
            results'[i][k].index = e /\ ~results'[i][k].error) =>
           pc[i][e] = "grading"
      /\ (logs'[PairName(config, i)] # logs[PairName(config, i)]
            /\ pc'[i][e] # pc[i][e]) => pc[i][e] = "grading"

C23_PhasesInOrder == []C23_State /\ [][C23_Step]_vars

(* an example of a document-style handler went through every phase and    *)
(* its record is in the log                                                *)
C23_Witness ==
  \E i \in Pairs(config) : \E e \in DOMAIN pc[i] :
    /\ ~PairHandler(config, i).is_llm_response
    /\ pc[i][e] = "ok"
    /\ \E k \in 1..Len(RowsThisRun(PairName(config, i))) :
         RowsThisRun(PairName(config, i))[k].index = e

(* C24: the scheduler branches only on the handler's is_llm_response tag. *)
(* For an LLM-style handler post_process is never called and the          *)
(* extractor's input is the response's answer; for a document-style       *)
(* handler post_process is called exactly once and the extractor's input  *)
(* is its output, also when the response carries an answer of its own.    *)
C24_BranchOnTagOnly ==
  \A i \in Pairs(config) : \A e \in DOMAIN pc[i] :
    pc[i][e] \in {"extracting", "grading"} =>
      LET handler == PairHandler(config, i)
          sr == search_result[i][e]
      IN IF handler.is_llm_response
           THEN /\ search_ans[i][e].post_process_calls = 0
                /\ search_ans[i][e].value = sr.answer
           ELSE /\ search_ans[i][e].post_process_calls = 1
                /\ search_ans[i][e].value = post_process(handler, sr).value
                /\ sr.answer # "" => search_ans[i][e].value # sr.answer

(* a document-style handler's response carried an answer, and the         *)
(* extractor was given the formatted documents                             *)
C24_Witness ==
  \E i \in Pairs(config) : \E e \in DOMAIN pc[i] :
    /\ pc[i][e] = "extracting"
    /\ ~PairHandler(config, i).is_llm_response
    /\ search_result[i][e].answer # ""
    /\ search_ans[i][e] = [value |-> "documents", post_process_calls |-> 1]

(* example f of pair j is waiting for the return of an awaited call *)
Awaiting(j, f) == ps[j] = "running" /\ pc[j][f] \in {"searching", "grading"}

(* C25: while one example's task waits on a network call (search,         *)
(* extraction oracle, grading oracle) its sibling tasks can make          *)
(* progress: whenever a task of a running run is in one of these calls,   *)
(* every other task that waits for the return of its own call can take    *)
(* its next step.                                                          *)
C25_SiblingsProgress ==
  \A i \in Pairs(config) : \A e \in DOMAIN pc[i] :
    (rs = "running" /\ ps[i] = "running"
       /\ pc[i][e] \in {"searching", "extracting", "grading"}) =>
      \A j \in Pairs(config) : \A f \in DOMAIN pc[j] :
        (<<j, f>> # <<i, e>> /\ Awaiting(j, f)) =>
          ENABLED (SearchReturn(j, f) \/ GradeReturn(j, f))

(* C26: under every interleaving of the example tasks a record log has    *)
(* exactly one header row, and it is the first row: the save_result that  *)
(* finds no file creates it with the header and one record, and a         *)
(* save_result that finds the file appends one record and nothing else.   *)
C26_State ==
  \A n \in NameSet(config) :
    logs[n].exists =>
      LET c == logs[n].cells
      IN /\ Len(c) >= 1 /\ c[1] = HDR
         /\ Cardinality({k \in 1..Len(c) : c[k] = HDR}) = 1

C26_Step ==
  \A n \in NameSet(config) :
    logs'[n] # logs[n] =>
      /\ logs'[n].exists
      /\ \E r \in RowSet(logs'[n]) :
           logs'[n].cells =
             (IF logs[n].exists THEN logs[n].cells ELSE <<HDR>>)
               \o <<HeadCell(r), TailCell(r)>>

C26_OneHeaderFirst == []C26_State /\ [][C26_Step]_vars

(* two examples of one provider completed in a run that created the log *)
C26_Witness ==
  \E n \in NameSet(config) :
    /\ ~logs0[n].exists
    /\ logs[n].exists
    /\ Len(logs[n].cells) = 5

(* the handler get_search_handlers constructs from entry k alone *)
OwnHandler(params, k) == get_search_handlers(<<params[k]>>)

(* C27: handler/name pairing.  For every configuration, the examples      *)
(* evaluated and logged under a provider name are produced by the handler *)
(* constructed from that name's own configuration entry: a pair that has  *)
(* results or log rows this run joins the name with its own handler.       *)
C27_HandlerNamePairing ==
  \A i \in Pairs(config) :
    (results[i] # <<>> \/ RowsThisRun(PairName(config, i)) # <<>>) =>
      OwnHandler(config, i) = <<PairHandler(config, i)>>

(* C28: each example scheduled for a provider contributes exactly one     *)
(* entry to the provider's in-memory results list: once all its example   *)
(* tasks have completed the list has one entry per scheduled example, and *)
(* every returned ProviderResult has len(results) = total_count.           *)
C28_OneResultPerExample ==
  /\ \A i \in Pairs(config) :
       (\A e \in DOMAIN pc[i] : Finished(i, e)) =>
         /\ Len(results[i]) = Cardinality(DOMAIN pc[i])
         /\ \A e \in DOMAIN pc[i] :
              Cardinality({k \in 1..Len(results[i]) : results[i][k].index = e}) = 1
  /\ \A k \in 1..Len(provider_results) :
       Len(provider_results[k].results) = provider_results[k].total_count

(* C30: after a run, fresh or resume, that returned its provider results  *)
(* the correct_count and total_count of each provider's result equal      *)
(* those of the provider's row in the summary file.                        *)
C30_ResultMatchesSummary ==
  rs = "done" =>
    \A j \in 1..Len(provider_results) :
      \E k \in 1..Len(summary.cells) :
        /\ summary.cells[k].provider = provider_results[j].provider
        /\ summary.cells[k].correct_count = provider_results[j].correct_count
        /\ summary.cells[k].total_count = provider_results[j].total_count

(* seq p is an initial segment of seq q *)
IsPrefix(p, q) == Len(p) <= Len(q) /\ SubSeq(q, 1, Len(p)) = p

(* C29: a provider's record log is append-only across every sequence of   *)
(* fresh and resume runs on the directory: no step removes or changes a   *)
(* row, so the rows present before a run are an unchanged prefix of the   *)
(* rows present during and after it.                                       *)
C29_State ==
  \A n \in NameSet(config) :
    logs0[n].exists =>
      /\ logs[n].exists
      /\ IsPrefix(logs0[n].cells, logs[n].cells)
      /\ IsPrefix(read_csv(logs0[n]), read_csv(logs[n]))

C29_Step ==
  \A n \in NameSet(config) :
    logs[n].exists =>
      /\ logs'[n].exists
      /\ IsPrefix(logs[n].cells, logs'[n].cells)

C29_AppendOnly == []C29_State /\ [][C29_Step]_vars

(* a resume run added a record to a log that already held one *)
C29_Witness ==
  \E n \in NameSet(config) :
    /\ args.rerun
    /\ Len(read_csv(logs0[n])) >= 1
    /\ Len(read_csv(logs[n])) > Len(read_csv(logs0[n]))

(* every task of the run has returned its OK or its ERROR result *)
AllTasksTerminal ==
  \A i \in Pairs(config) : \A e \in DOMAIN pc[i] : Finished(i, e)

(* C31: termination.  Provided every search, extraction and grading call  *)
(* eventually returns or raises, a run that has scheduled its example     *)
(* tasks eventually has every task in a terminal state (OK or error),     *)
(* eventually has every evaluate_provider returned, and eventually        *)
(* reaches the summary step, which ends the run.                           *)
C31_Termination ==
  (rs = "running") ~> (Ended /\ AllTasksTerminal /\ AllReturned)

(* a sequential run over two providers ended after one of its examples    *)
(* ended in error                                                          *)
C31_Witness ==
  /\ Ended
  /\ ~args.parallel
  /\ AllFinished
  /\ \E i \in Pairs(config) : \E e \in DOMAIN pc[i] : pc[i][e] = "error"

====
